---- MODULE Spec2Model ----
(***************************************************************************)
(* Batched remote operations of RoxyClient (openBrowsers with its retry    *)
(* loop, createBrowsers, closeBrowsers), the remote call makeRequest, and  *)
(* the failure classification of RoxyApiError / ErrorAnalyzer.             *)
(*                                                                         *)
(* JavaScript runs every continuation to its next await without            *)
(* interleaving, so each action below is one such run: the call of a       *)
(* batch function up to its first await, the arrival of one response, the  *)
(* firing of one timer, the continuation of one Promise.all.               *)
(***************************************************************************)
EXTENDS Integers, Sequences, FiniteSets, TLC

(***************************************************************************)
(* Bounds of the explored inputs.                                          *)
(***************************************************************************)
\* longest input list of createBrowsers and of closeBrowsers
MaxItems == 4
\* longest input list of an openBrowsers batch called with maxRetries = 0
MaxOpenItems == 6
\* longest input list of an openBrowsers batch called with maxRetries > 0
MaxRetryItems == 3
\* longest input list of a scripted openBrowsers batch
MaxScriptItems == 7
\* most items of a scripted batch whose calls always time out
MaxScriptFail == 2
\* longest input list, and the retry budget, of an openBrowsers batch called
\* with retry options of its own
MaxBackoffItems == 2
MaxBackoffRetries == 3
\* a retryDelay option other than the default, in ms
ShortRetryDelay == 250
\* longest freely chosen list of Error objects handed to ErrorAnalyzer
MaxErrors == 3
\* how many of them, from the front, are also analysed one by one
MaxSignals == 1
\* most calls of ErrorAnalyzer in one behaviour
MaxCalls == 3
MaxTimeout == 2
MaxTime == 4
MaxServed == 2

(***************************************************************************)
(* Program constants.                                                      *)
(***************************************************************************)
OPEN_BATCH_SIZE == 5
CREATE_BATCH_SIZE == 3
CREATE_BATCH_DELAY == 1000
DEFAULT_MAX_RETRIES == 2
DEFAULT_RETRY_DELAY == 1000
TIMEOUT_CODE == 408
NETWORK_ERROR_CODE == 0
NoCode == -1

(***************************************************************************)
(* Messages.  A message is modelled by the set of the substrings that the  *)
(* program probes for and that it contains; concatenation is union.        *)
(***************************************************************************)
\* the phrase U+989D U+5EA6 U+4E0D U+8DB3 ("quota exhausted")
QuotaCn == "quota_exhausted_cn"
QuotaEn == "quota"
Busy == "profile already open"
TimeoutWord == "timeout"
\* the phrase U+6210 U+529F ("success"), the chineseMsg of table entry 0
SuccessCn == "success_cn"
TypeErrorText == "Cannot read properties of undefined"

(***************************************************************************)
(* ROXY_ERROR_MAP: the fixed table keyed by result code.                   *)
(***************************************************************************)
TableCodes == {0, 400, 401, 403, 404, 408, 409, 500, 502, 503, 504}

Entry(nm, cn, cat, sev, auto, retry) ==
    [name |-> nm, chineseMsg |-> cn, category |-> cat, severity |-> sev,
     autoRecoverable |-> auto, retryable |-> retry]

ROXY_ERROR_MAP ==
    [c \in TableCodes |->
       CASE c = 0   -> Entry("SUCCESS", {SuccessCn}, "server", "low", TRUE, FALSE)
         [] c = 400 -> Entry("INVALID_PARAMS", {}, "configuration", "medium", FALSE, FALSE)
         [] c = 401 -> Entry("UNAUTHORIZED", {}, "authentication", "high", FALSE, FALSE)
         [] c = 403 -> Entry("FORBIDDEN", {}, "authentication", "high", FALSE, FALSE)
         [] c = 404 -> Entry("NOT_FOUND", {}, "resource", "medium", FALSE, FALSE)
         [] c = 408 -> Entry("TIMEOUT", {}, "network", "medium", TRUE, TRUE)
         [] c = 409 -> Entry("CONFLICT", {QuotaCn}, "browser", "medium", FALSE, FALSE)
         [] c = 500 -> Entry("SERVER_ERROR", {}, "server", "high", FALSE, TRUE)
         [] c = 502 -> Entry("BAD_GATEWAY", {}, "network", "high", FALSE, TRUE)
         [] c = 503 -> Entry("SERVICE_UNAVAILABLE", {}, "server", "high", TRUE, TRUE)
         [] c = 504 -> Entry("GATEWAY_TIMEOUT", {}, "network", "medium", TRUE, TRUE)]

(***************************************************************************)
(* new RoxyApiError(message, code): the fields the constructor derives     *)
(* from the table, and the message enhanced with the Chinese translation.  *)
(***************************************************************************)
RoxyApiError_messageDecides(message, code) ==
    LET known == code \in TableCodes
    IN  [isRoxy    |-> TRUE,
         code      |-> code,
         hasInfo   |-> known,
         name      |-> IF known THEN ROXY_ERROR_MAP[code].name ELSE "",
         category  |-> IF known THEN ROXY_ERROR_MAP[code].category ELSE "unknown",
         severity  |-> IF known THEN ROXY_ERROR_MAP[code].severity ELSE "medium",
         retryable |-> IF code = 409 THEN QuotaCn \notin message
                       ELSE IF known THEN ROXY_ERROR_MAP[code].retryable ELSE FALSE,
         message   |-> IF known THEN message \cup ROXY_ERROR_MAP[code].chineseMsg
                                ELSE message]

RoxyApiError_optimisticDefault(message, code) ==
    LET known == code \in TableCodes
    IN  [isRoxy    |-> TRUE,
         code      |-> code,
         hasInfo   |-> known,
         name      |-> IF known THEN ROXY_ERROR_MAP[code].name ELSE "",
         category  |-> IF known THEN ROXY_ERROR_MAP[code].category ELSE "unknown",
         severity  |-> IF known THEN ROXY_ERROR_MAP[code].severity ELSE "medium",
         retryable |-> IF known THEN ROXY_ERROR_MAP[code].retryable ELSE TRUE,
         message   |-> IF known THEN message \cup ROXY_ERROR_MAP[code].chineseMsg
                                ELSE message]

RoxyApiError(message, code) ==
    LET known == code \in TableCodes
    IN  [isRoxy    |-> TRUE,
         code      |-> code,
         hasInfo   |-> known,
         name      |-> IF known THEN ROXY_ERROR_MAP[code].name ELSE "",
         category  |-> IF known THEN ROXY_ERROR_MAP[code].category ELSE "unknown",
         severity  |-> IF known THEN ROXY_ERROR_MAP[code].severity ELSE "medium",
         retryable |-> IF known THEN ROXY_ERROR_MAP[code].retryable ELSE FALSE,
         message   |-> IF known THEN message \cup ROXY_ERROR_MAP[code].chineseMsg
                                ELSE message]

\* RoxyApiError.isRetryable
isRetryable(e) == e.retryable

\* RoxyApiError.getRetryStrategy
getRetryStrategy(e) ==
    IF ~e.retryable THEN [shouldRetry |-> FALSE, delayMs |-> 0, maxRetries |-> 0]
    ELSE CASE e.category = "network" -> [shouldRetry |-> TRUE, delayMs |-> 2000, maxRetries |-> 3]
           [] e.category = "server"  -> [shouldRetry |-> TRUE, delayMs |-> 5000, maxRetries |-> 2]
           [] e.category = "browser" -> [shouldRetry |-> TRUE, delayMs |-> 1000, maxRetries |-> 1]
           [] OTHER                  -> [shouldRetry |-> TRUE, delayMs |-> 1000, maxRetries |-> 1]

(***************************************************************************)
(* Troubleshooting lists.  A step is named by the list it was written in   *)
(* and its place there.  The lists of ROXY_ERROR_MAP and of                *)
(* NETWORK_ERROR_PATTERNS are arrays that live as long as the module: an   *)
(* error object's troubleshooting field refers to the array of its table   *)
(* entry, and an analysis may refer to the array of a pattern.             *)
(***************************************************************************)
Steps(of, len) == [j \in 1..len |-> [of |-> of, no |-> j]]

\* ROXY_ERROR_MAP[c].troubleshooting as written in the source
TableSteps ==
    [c \in TableCodes |->
       IF c = 0 THEN <<>> ELSE Steps(ROXY_ERROR_MAP[c].name, 4)]

\* the ordered pattern list; a pattern is the set of the lower-case
\* alternatives of its case-insensitive regular expression
NETWORK_ERROR_PATTERNS ==
    << [alternatives |-> {"econnrefused"}, category |-> "connection_refused"],
       [alternatives |-> {"enotfound", "getaddrinfo"}, category |-> "host_not_found"],
       [alternatives |-> {"etimedout"}, category |-> "connection_timeout"],
       [alternatives |-> {"econnreset"}, category |-> "connection_reset"] >>

PatternSteps ==
    [q \in DOMAIN NETWORK_ERROR_PATTERNS |->
       Steps(NETWORK_ERROR_PATTERNS[q].category, 4)]

\* the module-level arrays as loaded
LoadedTables == [map |-> TableSteps, net |-> PatternSteps]

\* String.prototype.toLowerCase on the substrings a message is made of
toLowerCase(x) ==
    CASE x = "ECONNREFUSED" -> "econnrefused"
      [] x = "ENOTFOUND"    -> "enotfound"
      [] x = "ETIMEDOUT"    -> "etimedout"
      [] x = "ECONNRESET"   -> "econnreset"
      [] x = "Timeout"      -> "timeout"
      [] x = "Not Found"    -> "not found"
      [] x = "Conflict"     -> "conflict"
      [] x = "Connection"   -> "connection"
      [] OTHER              -> x

\* pattern.pattern.test(message) for the q-th pattern
PatternTest(q, message) ==
    \E x \in message : toLowerCase(x) \in NETWORK_ERROR_PATTERNS[q].alternatives

\* NETWORK_ERROR_PATTERNS.find(...): the first pattern that matches, 0 if none
FindPattern(message) ==
    LET hits == {q \in DOMAIN NETWORK_ERROR_PATTERNS : PatternTest(q, message)}
    IN  IF hits = {} THEN 0 ELSE CHOOSE q \in hits : \A r \in hits : q <= r

(***************************************************************************)
(* makeRequest.  A wire outcome is what the transport does with one call:  *)
(*   json     a 2xx response whose body parses, carrying data.code,        *)
(*            data.msg and possibly data.data                              *)
(*   http     a response with a non-2xx status                             *)
(*   abort    the AbortController fired (the configured timeout elapsed)   *)
(*   fault    fetch rejected with an Error (connection refused, DNS, ...)  *)
(*   badjson  response.json() rejected with a SyntaxError                  *)
(*   nonerror something that is not an Error was thrown                    *)
(***************************************************************************)
Wire(kind, code, msg, hasData) ==
    [kind |-> kind, code |-> code, msg |-> msg, hasData |-> hasData]

NoError == [isRoxy |-> FALSE, code |-> NoCode, hasInfo |-> FALSE, name |-> "",
            category |-> "", severity |-> "", retryable |-> FALSE, message |-> {}]

Resolved(hasData) == [ok |-> TRUE, hasData |-> hasData, error |-> NoError]
Thrown(e) == [ok |-> FALSE, hasData |-> FALSE, error |-> e]

\* data.msg || "API request failed", rewritten for a 409 that reports
\* exhausted quota
ApiErrorMessage(w) ==
    IF w.code = 409 /\ QuotaCn \in w.msg THEN {QuotaCn, QuotaEn} ELSE w.msg

makeRequest(w) ==
    CASE w.kind = "http"     -> Thrown(RoxyApiError(w.msg, w.code))
      [] w.kind = "json"     -> IF w.code # 0
                                THEN Thrown(RoxyApiError(ApiErrorMessage(w), w.code))
                                ELSE Resolved(w.hasData)
      [] w.kind = "abort"    -> Thrown(RoxyApiError({TimeoutWord}, TIMEOUT_CODE))
      [] w.kind = "fault"    -> Thrown(RoxyApiError(w.msg, NETWORK_ERROR_CODE))
      [] w.kind = "badjson"  -> Thrown(RoxyApiError(w.msg, NETWORK_ERROR_CODE))
      [] w.kind = "nonerror" -> Thrown(RoxyApiError({}, NETWORK_ERROR_CODE))

(***************************************************************************)
(* State.                                                                  *)
(***************************************************************************)
VARIABLES
    op,             \* the batch function called: "open", "create", "close"; "none" when a single failure is classified
    n,              \* length of the input list (dirIds / configs); item k is its k-th element
    maxRetries,     \* options.maxRetries of openBrowsers
    retryDelay,     \* options.retryDelay of openBrowsers, in ms
    plan,           \* per item, what the remote service answers: "any", "ok", "timeout"
    i,              \* loop variable of the batch loop: 0-based start of the current window
    pc,             \* position of the batch function: "call", "await", "delay", "done", "rejected"
    st,             \* per item, state of its callback: "idle", "pending", "backoff", "resolved", "rejected"
    attempt,        \* per item, loop variable of the retry loop
    calls,          \* per item, number of remote calls issued so far
    lastError,      \* per item, lastError of the retry loop
    lastErrorCode,  \* per item, lastErrorCode of the retry loop
    timer,          \* per item, delay in ms of the pending backoff timer (0: none)
    ret,            \* per item, the value its callback returned
    successes,      \* openBrowsers: successes (the items whose result was pushed)
    failures,       \* openBrowsers: failures
    results,        \* createBrowsers / closeBrowsers: results
    errors,         \* createBrowsers: the items pushed to errors
    out,            \* the value the batch function returned
    sig,            \* classification: the wire outcome of the call under study
    err,            \* classification: the RoxyApiError makeRequest threw for it
    cls,            \* classification: ErrorAnalyzer.analyzeError of that error
    tables,         \* the troubleshooting arrays of ROXY_ERROR_MAP and NETWORK_ERROR_PATTERNS
    errs,           \* analysis: the Error objects held by the caller of ErrorAnalyzer
    log,            \* analysis: the calls of ErrorAnalyzer made so far, with what they returned
    settled,        \* createBrowsers / closeBrowsers: the items in the order their callbacks settled
    sleep,          \* createBrowsers: delay in ms of the pending inter-window timer (0: none)
    timeout,        \* one request: config.timeout, in ticks
    stall,          \* one request: where the remote service stops answering: "never", "headers", "body"
    now,            \* one request: ticks elapsed since makeRequest was called
    timeoutId,      \* one request: TRUE while the timer set by makeRequest is armed
    diagnostics,    \* startup: the object performDiagnostics builds and returns
    exitCode,       \* startup: the status process.exit was called with (NoCode: the process runs)
    served          \* startup: number of tool calls the connected server has handled

vars == <<op, n, maxRetries, retryDelay, plan, i, pc, st, attempt, calls, lastError,
          lastErrorCode, timer, ret, successes, failures, results, errors,
          out, sig, err, cls, tables, errs, log, settled, sleep, timeout, stall, now,
          timeoutId, diagnostics, exitCode, served>>

itemVars == <<st, attempt, calls, lastError, lastErrorCode, timer, ret>>
listVars == <<successes, failures, results, errors>>
inputVars == <<op, n, maxRetries, retryDelay, plan>>
analyzerVars == <<tables, errs, log>>
classVars == <<sig, err, cls, analyzerVars>>
requestVars == <<timeout, stall, now, timeoutId>>
serverVars == <<diagnostics, exitCode, served>>
processVars == <<requestVars, serverVars>>
batchVars == <<inputVars, settled, sleep, i, itemVars, listVars, out>>

NoRet == [kind |-> "none", hasData |-> FALSE, success |-> FALSE, error |-> {},
          errorCode |-> NoCode, retryable |-> FALSE]
NoOut == [kind |-> "none"]
NoSig == [kind |-> "none"]
NoDiagnostics == [connected |-> FALSE, authentication |-> FALSE,
                  workspaceAccess |-> FALSE, errors |-> <<>>]
NoCls == [kind |-> "none"]

Items == 1..n

Window_restOfList(i0, size) == {k \in Items : i0 < k}

\* dirIds.slice(i0, i0 + size), as item numbers
Window(i0, size) == {k \in Items : i0 < k /\ k <= i0 + size}

\* the same slice in input order
WindowSeq(i0, size) ==
    [j \in 1..Cardinality(Window(i0, size)) |-> i0 + j]

(***************************************************************************)
(* The remote service.                                                     *)
(***************************************************************************)
WOk      == Wire("json", 0, {}, TRUE)
WNoData  == Wire("json", 0, {}, FALSE)
W404     == Wire("json", 404, {"not found"}, FALSE)
WAbort   == Wire("abort", NoCode, {}, FALSE)
WFault   == Wire("fault", NoCode, {"ECONNREFUSED"}, FALSE)

BatchWires == {WOk, WNoData, W404, WAbort, WFault}

Answers(k) ==
    CASE plan[k] = "ok"      -> {WOk}
      [] plan[k] = "timeout" -> {WAbort}
      [] OTHER               -> BatchWires

(***************************************************************************)
(* Initial states: a batch function is about to be called.                 *)
(***************************************************************************)
BlankItems(m) ==
    /\ st = [k \in 1..m |-> "idle"]
    /\ attempt = [k \in 1..m |-> 0]
    /\ calls = [k \in 1..m |-> 0]
    /\ lastError = [k \in 1..m |-> NoError]
    /\ lastErrorCode = [k \in 1..m |-> NoCode]
    /\ timer = [k \in 1..m |-> 0]
    /\ ret = [k \in 1..m |-> NoRet]

BlankBatch ==
    /\ i = 0
    /\ successes = <<>>
    /\ failures = <<>>
    /\ results = <<>>
    /\ errors = {}
    /\ out = NoOut
    /\ settled = <<>>
    /\ sleep = 0

\* no request is under study and the server process has not been started
BlankProcess ==
    /\ timeout = 0 /\ stall = "never" /\ now = 0 /\ timeoutId = FALSE
    /\ diagnostics = NoDiagnostics
    /\ exitCode = NoCode
    /\ served = 0

BlankAnalyzer ==
    /\ tables = LoadedTables
    /\ errs = <<>>
    /\ log = <<>>

BlankClass ==
    /\ sig = NoSig
    /\ err = NoError
    /\ cls = NoCls
    /\ BlankAnalyzer

\* every call may be answered in every way
FreeInputs ==
    /\ op \in {"open", "create", "close"}
    /\ maxRetries \in 0..DEFAULT_MAX_RETRIES
    /\ n \in 0..(IF op # "open" THEN MaxItems
                 ELSE IF maxRetries = 0 THEN MaxOpenItems ELSE MaxRetryItems)
    /\ op # "open" => maxRetries = DEFAULT_MAX_RETRIES
    /\ retryDelay = DEFAULT_RETRY_DELAY
    /\ plan = [k \in 1..n |-> "any"]

\* openBrowsers where chosen items always time out and the others succeed
ScriptedInputs ==
    /\ op = "open"
    /\ n \in 0..MaxScriptItems
    /\ maxRetries \in 0..DEFAULT_MAX_RETRIES
    /\ plan \in [1..n -> {"ok", "timeout"}]
    /\ Cardinality({k \in 1..n : plan[k] = "timeout"}) <= MaxScriptFail
    /\ retryDelay = DEFAULT_RETRY_DELAY

\* openBrowsers called with options { maxRetries, retryDelay }
BackoffInputs ==
    /\ op = "open"
    /\ n \in 1..MaxBackoffItems
    /\ maxRetries = MaxBackoffRetries
    /\ retryDelay \in {DEFAULT_RETRY_DELAY, ShortRetryDelay}
    /\ plan = [k \in 1..n |-> "any"]

Init ==
    /\ FreeInputs \/ ScriptedInputs \/ BackoffInputs
    /\ pc = "call"
    /\ BlankItems(n)
    /\ BlankBatch
    /\ BlankClass
    /\ BlankProcess

(***************************************************************************)
(* Issuing the first call of every item of a window (batch.map runs each   *)
(* callback up to its first await, which is inside fetch).                 *)
(***************************************************************************)
IssueWindow(i0, size) ==
    /\ st' = [k \in Items |-> IF k \in Window(i0, size) THEN "pending" ELSE st[k]]
    /\ calls' = [k \in Items |-> IF k \in Window(i0, size) THEN calls[k] + 1 ELSE calls[k]]
    /\ UNCHANGED <<attempt, lastError, lastErrorCode, timer, ret>>

AllSettled_notAwaited(W) == TRUE

\* Promise.all over the callbacks of a window
AllSettled(W) ==
    \/ \E k \in W : st[k] = "rejected"
    \/ \A k \in W : st[k] = "resolved"
AnyRejected(W) == \E k \in W : st[k] = "rejected"

(***************************************************************************)
(* openBrowsers.                                                           *)
(***************************************************************************)
OpenResult(hasData) == [kind |-> "result", hasData |-> hasData]

\* the object returned after the retry loop ("All attempts failed")
OpenFailure_alwaysRetryable(e, code) ==
    [kind |-> "error", error |-> e.message, errorCode |-> code, retryable |-> TRUE]

OpenFailure(e, code) ==
    [kind |-> "error", error |-> e.message, errorCode |-> code,
     retryable |-> IF e.isRoxy THEN isRetryable(e) ELSE TRUE]

\* the catch block of the retry loop, entered with error e during attempt
\* att: leave the loop ("return"), or wait and loop ("wait")
OpenCatch_offByOne(e, att, maxR) ==
    IF e.isRoxy /\ ~isRetryable(e) THEN [next |-> "return", delay |-> 0]
    ELSE IF att <= maxR THEN [next |-> "wait", delay |-> retryDelay * (att + 1)]
    ELSE [next |-> "return", delay |-> 0]

OpenCatch_retriesEverything(e, att, maxR) ==
    IF att < maxR THEN [next |-> "wait", delay |-> retryDelay * (att + 1)]
    ELSE [next |-> "return", delay |-> 0]

OpenCatch_rethrows(e, att, maxR) ==
    IF e.isRoxy /\ ~isRetryable(e) THEN [next |-> "throw", delay |-> 0]
    ELSE IF att < maxR THEN [next |-> "wait", delay |-> retryDelay * (att + 1)]
    ELSE [next |-> "return", delay |-> 0]

OpenCatch_doubling(e, att, maxR) ==
    IF e.isRoxy /\ ~isRetryable(e) THEN [next |-> "return", delay |-> 0]
    ELSE IF att < maxR THEN [next |-> "wait", delay |-> retryDelay * (2 ^ att)]
    ELSE [next |-> "return", delay |-> 0]

OpenCatch_oneBackoffAtATime(e, att, maxR) ==
    IF e.isRoxy /\ ~isRetryable(e) THEN [next |-> "return", delay |-> 0]
    ELSE IF att < maxR /\ ~(\E j \in Items : st[j] = "backoff")
    THEN [next |-> "wait", delay |-> retryDelay * (att + 1)]
    ELSE [next |-> "return", delay |-> 0]

OpenCatch(e, att, maxR) ==
    IF e.isRoxy /\ ~isRetryable(e) THEN [next |-> "return", delay |-> 0]
    ELSE IF att < maxR THEN [next |-> "wait", delay |-> retryDelay * (att + 1)]
    ELSE [next |-> "return", delay |-> 0]

\* the partition of a callback's return value after Promise.all
OpenIsSuccess(r) == r.kind = "result" /\ r.hasData
OpenIsFailure(r) == ~OpenIsSuccess(r) /\ r.kind = "error"

OpenPushSuccesses(i0) ==
    LET keep(k) == OpenIsSuccess(ret[k])
    IN  successes \o SelectSeq(WindowSeq(i0, OPEN_BATCH_SIZE), keep)

OpenPushFailures_everyError(i0) ==
    LET keep(k) == lastError[k] # NoError
        ks == SelectSeq(WindowSeq(i0, OPEN_BATCH_SIZE), keep)
    IN  failures \o [j \in 1..Len(ks) |->
                       [dirId |-> ks[j], error |-> lastError[ks[j]].message,
                        errorCode |-> lastErrorCode[ks[j]],
                        retryable |-> lastError[ks[j]].retryable]]

OpenPushFailures(i0) ==
    LET keep(k) == OpenIsFailure(ret[k])
        ks == SelectSeq(WindowSeq(i0, OPEN_BATCH_SIZE), keep)
    IN  failures \o [j \in 1..Len(ks) |->
                       [dirId |-> ks[j], error |-> ret[ks[j]].error,
                        errorCode |-> ret[ks[j]].errorCode,
                        retryable |-> ret[ks[j]].retryable]]

OpenReturn(succ, fail) == [kind |-> "open", successes |-> succ, failures |-> fail]

\* openBrowsers is called: it runs to the first Promise.all, or returns at
\* once for an empty list
OpenCall ==
    /\ op = "open" /\ pc = "call"
    /\ IF n = 0
       THEN /\ pc' = "done"
            /\ out' = OpenReturn(successes, failures)
            /\ UNCHANGED itemVars
       ELSE /\ pc' = "await"
            /\ out' = out
            /\ IssueWindow(0, OPEN_BATCH_SIZE)
    /\ UNCHANGED <<inputVars, settled, sleep, processVars, i, listVars, classVars>>

\* the call of item k settles with wire outcome w, and the callback runs to
\* its return or to its backoff timer
OpenRespond(k, w) ==
    /\ op = "open" /\ pc = "await" /\ st[k] = "pending"
    /\ w \in Answers(k)
    /\ LET r == makeRequest(w)
           e == r.error
           code == IF e.isRoxy THEN e.code ELSE lastErrorCode[k]
           c == OpenCatch(e, attempt[k], maxRetries)
       IN  IF r.ok
           THEN /\ st' = [st EXCEPT ![k] = "resolved"]
                /\ ret' = [ret EXCEPT ![k] = OpenResult(r.hasData)]
                /\ UNCHANGED <<attempt, lastError, lastErrorCode, timer>>
           ELSE /\ lastError' = [lastError EXCEPT ![k] = e]
                /\ lastErrorCode' = [lastErrorCode EXCEPT ![k] = code]
                /\ IF c.next = "wait"
                   THEN /\ st' = [st EXCEPT ![k] = "backoff"]
                        /\ timer' = [timer EXCEPT ![k] = c.delay]
                        /\ UNCHANGED <<attempt, ret>>
                   ELSE IF c.next = "return"
                   THEN /\ st' = [st EXCEPT ![k] = "resolved"]
                        /\ ret' = [ret EXCEPT ![k] = OpenFailure(e, code)]
                        /\ UNCHANGED <<attempt, timer>>
                   ELSE /\ st' = [st EXCEPT ![k] = "rejected"]
                        /\ UNCHANGED <<attempt, timer, ret>>
    /\ UNCHANGED <<inputVars, settled, sleep, processVars, i, pc, calls, listVars,
                   out, classVars>>

\* the backoff timer of item k fires: attempt++ and the next call is issued
OpenRetry(k) ==
    /\ op = "open" /\ pc = "await" /\ st[k] = "backoff"
    /\ attempt' = [attempt EXCEPT ![k] = attempt[k] + 1]
    /\ calls' = [calls EXCEPT ![k] = calls[k] + 1]
    /\ st' = [st EXCEPT ![k] = "pending"]
    /\ timer' = [timer EXCEPT ![k] = 0]
    /\ UNCHANGED <<inputVars, settled, sleep, processVars, i, pc, lastError,
                   lastErrorCode, ret, listVars,
                   out, classVars>>

\* Promise.all of the current window settles: the results are partitioned,
\* and the loop issues the next window or the function returns
OpenWindowDone ==
    /\ op = "open" /\ pc = "await"
    /\ AllSettled(Window(i, OPEN_BATCH_SIZE))
    /\ IF AnyRejected(Window(i, OPEN_BATCH_SIZE))
       THEN /\ pc' = "rejected"
            /\ UNCHANGED <<i, itemVars, listVars, out>>
       ELSE /\ successes' = OpenPushSuccesses(i)
            /\ failures' = OpenPushFailures(i)
            /\ i' = i + OPEN_BATCH_SIZE
            /\ UNCHANGED <<results, errors>>
            /\ IF i' < n
               THEN /\ pc' = "await"
                    /\ out' = out
                    /\ IssueWindow(i', OPEN_BATCH_SIZE)
               ELSE /\ pc' = "done"
                    /\ out' = OpenReturn(successes', failures')
                    /\ UNCHANGED itemVars
    /\ UNCHANGED <<inputVars, settled, sleep, processVars, classVars>>

OpenNext ==
    \/ OpenCall
    \/ \E k \in Items : \E w \in BatchWires : OpenRespond(k, w)
    \/ \E k \in Items : OpenRetry(k)
    \/ OpenWindowDone

(***************************************************************************)
(* createBrowsers.                                                         *)
(***************************************************************************)
\* the value a createBrowsers callback returns for the outcome r of
\* createBrowser: result.dirId of a response without data raises a
\* TypeError inside the try block, which the catch block records
CreateSettle_rethrows(r) ==
    IF r.ok /\ r.hasData
    THEN [kind |-> "item", success |-> TRUE, error |-> {}, settle |-> "resolved"]
    ELSE [kind |-> "item", success |-> FALSE,
          error |-> IF r.ok THEN {TypeErrorText} ELSE r.error.message,
          settle |-> "rejected"]

CreateSettle(r) ==
    IF r.ok /\ r.hasData
    THEN [kind |-> "item", success |-> TRUE, error |-> {}, settle |-> "resolved"]
    ELSE [kind |-> "item", success |-> FALSE,
          error |-> IF r.ok THEN {TypeErrorText} ELSE r.error.message,
          settle |-> "resolved"]

CountSuccess(rs) == Cardinality({j \in 1..Len(rs) : rs[j].success})
CountFailure(rs) == Cardinality({j \in 1..Len(rs) : ~rs[j].success})

CreateReturn(rs, total) ==
    [kind |-> "create", results |-> rs, successCount |-> CountSuccess(rs),
     failureCount |-> CountFailure(rs), total |-> total]

PushResults_onlySuccesses(i0, size) ==
    LET keep(k) == ret[k].success
        ks == SelectSeq(WindowSeq(i0, size), keep)
    IN  results \o [j \in 1..Len(ks) |->
                      [item |-> ks[j], success |-> TRUE, error |-> {}]]

PushResults_completionOrder(i0, size) ==
    LET inWindow(k) == k \in Window(i0, size)
        ks == SelectSeq(settled, inWindow)
    IN  results \o [j \in 1..Len(ks) |->
                      [item |-> ks[j], success |-> ret[ks[j]].success,
                       error |-> ret[ks[j]].error]]

\* results.push(...batchResults)
PushResults(i0, size) ==
    results \o [j \in 1..Cardinality(Window(i0, size)) |->
                  [item |-> i0 + j, success |-> ret[i0 + j].success,
                   error |-> ret[i0 + j].error]]

CreateCall ==
    /\ op = "create" /\ pc = "call"
    /\ IF n = 0
       THEN /\ pc' = "done"
            /\ out' = CreateReturn(results, n)
            /\ UNCHANGED itemVars
       ELSE /\ pc' = "await"
            /\ out' = out
            /\ IssueWindow(0, CREATE_BATCH_SIZE)
    /\ UNCHANGED <<inputVars, settled, sleep, processVars, i, listVars, classVars>>

CreateRespond(k, w) ==
    /\ op = "create" /\ pc = "await" /\ st[k] = "pending"
    /\ w \in Answers(k)
    /\ LET v == CreateSettle(makeRequest(w))
       IN  /\ st' = [st EXCEPT ![k] = v.settle]
           /\ ret' = [ret EXCEPT ![k] = v]
           /\ settled' = Append(settled, k)
           /\ errors' = IF v.settle = "resolved" /\ ~v.success
                        THEN errors \cup {k} ELSE errors
    /\ UNCHANGED <<inputVars, sleep, processVars, i, pc, attempt, calls, lastError,
                   lastErrorCode,
                   timer, successes, failures, results, out, classVars>>

CreateSleeps_afterEveryWindow(i0) == TRUE

\* the guard of the delay between two windows
CreateSleeps(i0) == i0 + CREATE_BATCH_SIZE < n

\* Promise.all of the current window settles: its results are appended in
\* input order; then the loop sleeps if items remain, or the function returns
CreateWindowDone ==
    /\ op = "create" /\ pc = "await"
    /\ AllSettled(Window(i, CREATE_BATCH_SIZE))
    /\ IF AnyRejected(Window(i, CREATE_BATCH_SIZE))
       THEN /\ pc' = "rejected"
            /\ UNCHANGED <<i, results, out, sleep>>
       ELSE /\ results' = PushResults(i, CREATE_BATCH_SIZE)
            /\ IF CreateSleeps(i)
               THEN /\ pc' = "delay"
                    /\ sleep' = CREATE_BATCH_DELAY
                    /\ UNCHANGED <<i, out>>
               ELSE /\ pc' = "done"
                    /\ i' = i + CREATE_BATCH_SIZE
                    /\ out' = CreateReturn(results', n)
                    /\ sleep' = sleep
    /\ UNCHANGED <<inputVars, settled, processVars, itemVars, successes, failures,
                   errors, classVars>>

\* the delay between two windows has elapsed: the next window is issued
CreateDelayDone ==
    /\ op = "create" /\ pc = "delay"
    /\ i' = i + CREATE_BATCH_SIZE
    /\ pc' = "await"
    /\ IssueWindow(i', CREATE_BATCH_SIZE)
    /\ sleep' = 0
    /\ UNCHANGED <<inputVars, settled, processVars, listVars, out, classVars>>

CreateNext ==
    \/ CreateCall
    \/ \E k \in Items : \E w \in BatchWires : CreateRespond(k, w)
    \/ CreateWindowDone
    \/ CreateDelayDone

(***************************************************************************)
(* closeBrowsers: one Promise.all over the whole list.                     *)
(***************************************************************************)
CloseSettle(r) ==
    IF r.ok
    THEN [kind |-> "item", success |-> TRUE, error |-> {}, settle |-> "resolved"]
    ELSE [kind |-> "item", success |-> FALSE, error |-> r.error.message,
          settle |-> "resolved"]

CloseReturn(rs) == [kind |-> "close", results |-> rs]

CloseCall ==
    /\ op = "close" /\ pc = "call"
    /\ pc' = "await"
    /\ IssueWindow(0, n)
    /\ UNCHANGED <<inputVars, settled, sleep, processVars, i, listVars, out, classVars>>

CloseRespond(k, w) ==
    /\ op = "close" /\ pc = "await" /\ st[k] = "pending"
    /\ w \in Answers(k)
    /\ LET v == CloseSettle(makeRequest(w))
       IN  /\ st' = [st EXCEPT ![k] = v.settle]
           /\ ret' = [ret EXCEPT ![k] = v]
           /\ settled' = Append(settled, k)
    /\ UNCHANGED <<inputVars, sleep, processVars, i, pc, attempt, calls, lastError,
                   lastErrorCode,
                   timer, listVars, out, classVars>>

CloseDone ==
    /\ op = "close" /\ pc = "await"
    /\ AllSettled(Window(0, n))
    /\ IF AnyRejected(Window(0, n))
       THEN /\ pc' = "rejected"
            /\ UNCHANGED <<results, out>>
       ELSE /\ pc' = "done"
            /\ results' = PushResults(0, n)
            /\ out' = CloseReturn(results')
    /\ UNCHANGED <<inputVars, settled, sleep, processVars, i, itemVars, successes,
                   failures, errors, classVars>>

CloseNext ==
    \/ CloseCall
    \/ \E k \in Items : \E w \in BatchWires : CloseRespond(k, w)
    \/ CloseDone

(***************************************************************************)
(* The batch specification.                                                *)
(***************************************************************************)
Next == OpenNext \/ CreateNext \/ CloseNext

Spec == Init /\ [][Next]_vars

(***************************************************************************)
(* Classification of one failure: makeRequest turns a wire outcome into a  *)
(* RoxyApiError, ErrorAnalyzer.analyzeError turns that into an analysis.   *)
(***************************************************************************)
\* ErrorAnalyzer.analyzeRoxyApiError
\* error.message.includes(text)
Includes(message, text) == text \in message

\* the list of actions generateSuggestedActions returns, by the name of its
\* switch case ("none": the empty list)
generateSuggestedActions(e) ==
    CASE e.code = 401 -> "api key"
      [] e.code = 404 -> "find valid ids"
      [] e.code = 409 -> IF Includes(e.message, QuotaCn) \/ Includes(e.message, QuotaEn)
                         THEN "purchase quota"
                         ELSE "close conflicting profiles"
      [] e.code = 500 -> "application status"
      [] e.code \in {408, 504} -> "timeout settings"
      [] OTHER -> "none"

analyzeRoxyApiError(e) ==
    [kind             |-> "analysis",
     category         |-> e.category,
     severity         |-> e.severity,
     retryable        |-> isRetryable(e),
     hasStrategy      |-> isRetryable(e),
     retryStrategy    |-> getRetryStrategy(e),
     suggestedActions |-> generateSuggestedActions(e)]

\* result codes outside the table, and the wire outcomes explored
OtherCodes == {1, 418, 429, 999}
ApiMessages == {{}, {QuotaCn}, {Busy}, {TimeoutWord}}
FaultMessages == {{}, {"ECONNREFUSED"}, {"ENOTFOUND"}, {"ETIMEDOUT"}, {"ECONNRESET"}}

Wires ==
    {Wire("json", c, m, d) : c \in TableCodes \cup OtherCodes, m \in ApiMessages,
                             d \in BOOLEAN}
    \cup {Wire("http", c, {}, FALSE) : c \in (TableCodes \ {0}) \cup {429}}
    \cup {Wire("abort", NoCode, {}, FALSE)}
    \cup {Wire("fault", NoCode, m, FALSE) : m \in FaultMessages}
    \cup {Wire("badjson", NoCode, {}, FALSE)}
    \cup {Wire("nonerror", NoCode, {}, FALSE)}

ClassInit ==
    /\ op = "none" /\ n = 0 /\ maxRetries = DEFAULT_MAX_RETRIES
    /\ retryDelay = DEFAULT_RETRY_DELAY
    /\ plan = [k \in 1..0 |-> "any"]
    /\ pc = "idle"
    /\ BlankItems(0)
    /\ BlankBatch
    /\ sig \in Wires
    /\ err = NoError
    /\ cls = NoCls
    /\ BlankAnalyzer
    /\ BlankProcess

\* one call of makeRequest settles with wire outcome sig
Request ==
    /\ op = "none" /\ pc = "idle"
    /\ LET r == makeRequest(sig)
       IN  IF r.ok
           THEN pc' = "returned" /\ err' = err
           ELSE pc' = "thrown" /\ err' = r.error
    /\ UNCHANGED <<inputVars, settled, sleep, processVars, i, itemVars, listVars,
                   out, sig, cls, analyzerVars>>

\* the caller hands the thrown error to ErrorAnalyzer.analyzeError
Analyze ==
    /\ op = "none" /\ pc = "thrown"
    /\ cls' = analyzeRoxyApiError(err)
    /\ pc' = "analyzed"
    /\ UNCHANGED <<inputVars, settled, sleep, processVars, i, itemVars, listVars,
                   out, sig, err, analyzerVars>>

ClassNext == Request \/ Analyze

ClassSpec == ClassInit /\ [][ClassNext]_vars

(***************************************************************************)
(* Error objects as ErrorAnalyzer receives them: an instance of            *)
(* RoxyApiError, ConfigError, BrowserCreationError or plain Error.         *)
(***************************************************************************)
NoOriginal == [present |-> FALSE, message |-> {}]
Original(message) == [present |-> TRUE, message |-> message]

ErrorObject(class, b, original, partial) ==
    [class |-> class, isRoxy |-> b.isRoxy, code |-> b.code, hasInfo |-> b.hasInfo,
     name |-> b.name, category |-> b.category, severity |-> b.severity,
     retryable |-> b.retryable, message |-> b.message,
     originalError |-> original, partialResults |-> partial]

\* new RoxyApiError(message, code, response, originalError)
ApiError(message, code, original) ==
    ErrorObject("RoxyApiError", RoxyApiError(message, code), original, FALSE)
ConfigError(message) ==
    ErrorObject("ConfigError", [NoError EXCEPT !.message = message], NoOriginal, FALSE)
\* partial: partialResults is a non-empty list
BrowserCreationError(message, partial) ==
    ErrorObject("BrowserCreationError", [NoError EXCEPT !.message = message],
                NoOriginal, partial)
GenericError(message) ==
    ErrorObject("Error", [NoError EXCEPT !.message = message], NoOriginal, FALSE)

(***************************************************************************)
(* ErrorAnalyzer.analyzeError.  t is the state of the troubleshooting      *)
(* arrays when the call is made.                                           *)
(***************************************************************************)
NoStrategy == [shouldRetry |-> FALSE, delayMs |-> 0, maxRetries |-> 0]
Strategy(delay, retries) ==
    [shouldRetry |-> TRUE, delayMs |-> delay, maxRetries |-> retries]

Analysis(cat, sev, retry, strat, steps) ==
    [kind |-> "analysis", category |-> cat, severity |-> sev, retryable |-> retry,
     hasStrategy |-> strat # NoStrategy, retryStrategy |-> strat,
     troubleshooting |-> steps]

\* the step that reports the detected network pattern
Detected(q) == [of |-> NETWORK_ERROR_PATTERNS[q].category, no |-> 0]

getTroubleshootingSteps_inPlace(e, t) ==
    LET own == IF e.hasInfo THEN t.map[e.code] ELSE <<>>
        q == IF e.originalError.present THEN FindPattern(e.originalError.message) ELSE 0
        steps == IF q = 0 THEN own ELSE <<Detected(q)>> \o own \o t.net[q]
    IN  [steps |-> steps, troubleshooting |-> steps]

\* RoxyApiError.getTroubleshootingSteps: the list returned (steps), and the
\* array this.troubleshooting after the call; that array is the one of the
\* table entry when the code has one
getTroubleshootingSteps(e, t) ==
    LET own == IF e.hasInfo THEN t.map[e.code] ELSE <<>>
        q == IF e.originalError.present THEN FindPattern(e.originalError.message) ELSE 0
        steps == IF q = 0 THEN own ELSE <<Detected(q)>> \o own \o t.net[q]
    IN  [steps |-> steps, troubleshooting |-> own]

analyzeConfigError_critical(e) ==
    Analysis("configuration", "critical", FALSE, NoStrategy, Steps("ConfigError", 4))

analyzeConfigError(e) ==
    Analysis("configuration", "high", FALSE, NoStrategy, Steps("ConfigError", 4))

analyzeBrowserCreationError(e) ==
    Analysis("browser", IF e.partialResults THEN "medium" ELSE "high", TRUE,
             Strategy(2000, 2), Steps("BrowserCreationError", 5))

analyzeGenericError(e, t) ==
    LET q == FindPattern(e.message)
    IN  IF q # 0
        THEN Analysis("network", "high", TRUE, Strategy(3000, 3), t.net[q])
        ELSE Analysis("unknown", "medium", TRUE, Strategy(1000, 1), Steps("Error", 3))

analyzeError(e, t) ==
    CASE e.class = "RoxyApiError" ->
             LET a == analyzeRoxyApiError(e)
             IN  Analysis(a.category, a.severity, a.retryable,
                          IF a.hasStrategy THEN a.retryStrategy ELSE NoStrategy,
                          getTroubleshootingSteps(e, t).steps)
      [] e.class = "ConfigError" -> analyzeConfigError(e)
      [] e.class = "BrowserCreationError" -> analyzeBrowserCreationError(e)
      [] OTHER -> analyzeGenericError(e, t)

\* the troubleshooting arrays after analyzeError(e)
TablesAfter(e, t) ==
    IF e.class = "RoxyApiError" /\ e.hasInfo
    THEN [t EXCEPT !.map[e.code] = getTroubleshootingSteps(e, t).troubleshooting]
    ELSE t

(***************************************************************************)
(* ErrorAnalyzer.analyzeBatchErrors.                                       *)
(***************************************************************************)
Categories == {"network", "authentication", "configuration", "resource",
               "server", "browser", "proxy", "unknown"}
Severities == {"low", "medium", "high", "critical"}

\* the troubleshooting arrays after es[a], ..., es[b] were analysed in order
\* (the first half is computed before the second is entered, which keeps the
\* evaluation shallow for long lists)
RECURSIVE TablesOver(_, _, _, _)
TablesOver(es, a, b, t) ==
    IF a > b THEN t
    ELSE IF a = b THEN TablesAfter(es[a], t)
    ELSE LET mid == (a + b) \div 2
             half == TablesOver(es, a, mid, t)
         IN  IF half.map = half.map THEN TablesOver(es, mid + 1, b, half) ELSE half

\* the troubleshooting arrays after the first j errors of es were analysed
TablesAt(es, j, t) == TablesOver(es, 1, j, t)

\* result of the loop's call of analyzeError for every error, in order
BatchResults_codedOnly(es, t) ==
    LET coded == {j \in DOMAIN es : es[j].class = "RoxyApiError"}
        at(x) == CHOOSE j \in coded : Cardinality({y \in coded : y < j}) = x - 1
    IN  [x \in 1..Cardinality(coded) |->
           analyzeError(es[at(x)], TablesAt(es, at(x) - 1, t))]

BatchResults(es, t) ==
    [j \in DOMAIN es |-> analyzeError(es[j], TablesAt(es, j - 1, t))]

\* errorMessages and errorCodes as the loop fills them
ErrorMessages(es) == [j \in DOMAIN es |-> es[j].message]
ErrorCodes(es) ==
    LET coded(e) == e.class = "RoxyApiError"
        kept == SelectSeq(es, coded)
    IN  [j \in DOMAIN kept |-> kept[j].code]

\* Array.prototype.slice(0, k)
Slice(seq, k) == SubSeq(seq, 1, IF Len(seq) < k THEN Len(seq) ELSE k)

\* the keys of an object with integer keys, in the order Object.entries
\* visits them: ascending
RECURSIVE Ascending(_)
Ascending(S) ==
    IF S = {} THEN <<>>
    ELSE LET m == CHOOSE x \in S : \A y \in S : x <= y
         IN  <<m>> \o Ascending(S \ {m})

\* Array.prototype.sort((a, b) => b.count - a.count): stable, by decreasing
\* count
RECURSIVE SortByCount(_)
SortByCount(ps) ==
    IF ps = <<>> THEN <<>>
    ELSE LET best == CHOOSE x \in DOMAIN ps :
                        /\ \A y \in DOMAIN ps : ps[y].count <= ps[x].count
                        /\ \A y \in 1..(x - 1) : ps[y].count < ps[x].count
             rest == [y \in 1..(Len(ps) - 1) |-> IF y < best THEN ps[y] ELSE ps[y + 1]]
         IN  <<ps[best]>> \o SortByCount(rest)

commonKeywords == <<"timeout", "connection", "authentication", "not found", "conflict">>

\* msg.toLowerCase().includes(keyword.toLowerCase())
MessageIncludes(message, keyword) ==
    toLowerCase(keyword) \in {toLowerCase(x) : x \in message}

Pattern(kind, code, label, keyword, count, items) ==
    [kind |-> kind, code |-> code, label |-> label, keyword |-> keyword,
     count |-> count, affectedItems |-> items]

findCommonPatterns_unsorted(messages, codes) ==
    LET codeCount(c) == Cardinality({x \in DOMAIN codes : codes[x] = c})
        codeMessages(c) ==
            LET holds(x) == codes[x] = c
                at == SelectSeq([x \in DOMAIN codes |-> x], holds)
            IN  [y \in DOMAIN at |-> messages[at[y]]]
        keys == Ascending({codes[x] : x \in DOMAIN codes})
        significant(c) == codeCount(c) >= 2
        shown == SelectSeq(keys, significant)
        codePatterns ==
            [y \in DOMAIN shown |->
               Pattern("code", shown[y],
                       IF shown[y] \in TableCodes THEN ROXY_ERROR_MAP[shown[y]].name
                                                  ELSE "Error Code",
                       "", codeCount(shown[y]), Slice(codeMessages(shown[y]), 3))]
        matching(kw) ==
            LET hit(m) == MessageIncludes(m, kw) IN SelectSeq(messages, hit)
        common(kw) == Len(matching(kw)) >= 2
        probes == SelectSeq(commonKeywords, common)
        keywordPatterns ==
            [y \in DOMAIN probes |->
               Pattern("keyword", NoCode, "", probes[y],
                       Len(matching(probes[y])), Slice(matching(probes[y]), 3))]
    IN  codePatterns \o keywordPatterns

findCommonPatterns(messages, codes) ==
    LET codeCount(c) == Cardinality({x \in DOMAIN codes : codes[x] = c})
        \* codeMessages[c]: messages[index] for every index of codes holding c
        codeMessages(c) ==
            LET holds(x) == codes[x] = c
                at == SelectSeq([x \in DOMAIN codes |-> x], holds)
            IN  [y \in DOMAIN at |-> messages[at[y]]]
        keys == Ascending({codes[x] : x \in DOMAIN codes})
        significant(c) == codeCount(c) >= 2
        shown == SelectSeq(keys, significant)
        codePatterns ==
            [y \in DOMAIN shown |->
               Pattern("code", shown[y],
                       IF shown[y] \in TableCodes THEN ROXY_ERROR_MAP[shown[y]].name
                                                  ELSE "Error Code",
                       "", codeCount(shown[y]), Slice(codeMessages(shown[y]), 3))]
        matching(kw) ==
            LET hit(m) == MessageIncludes(m, kw) IN SelectSeq(messages, hit)
        common(kw) == Len(matching(kw)) >= 2
        probes == SelectSeq(commonKeywords, common)
        keywordPatterns ==
            [y \in DOMAIN probes |->
               Pattern("keyword", NoCode, "", probes[y],
                       Len(matching(probes[y])), Slice(matching(probes[y]), 3))]
    IN  SortByCount(codePatterns \o keywordPatterns)

\* the largest power of two below m
RECURSIVE PowerOfTwoBelow(_)
PowerOfTwoBelow(m) == IF m <= 2 THEN 1 ELSE 2 * PowerOfTwoBelow((m + 1) \div 2)

\* count > total * 0.7 in IEEE-754 double arithmetic.  The double 0.7 is
\* 0.7 - 0.4 * 2^-53, so total * 0.7 is exactly 0.7*total - 0.4*total*2^-53
\* before rounding.  When 0.7*total is not an integer the nearest integers
\* are at least 0.1 away and the comparison with the integer count is that
\* of the exact values.  When 0.7*total is an integer m, with 2^e < m <=
\* 2^(e+1), the doubles below m are 2^(e-52) apart, and the product rounds
\* to the double below m (instead of m) when 0.4*total*2^-53 exceeds half
\* of that, i.e. when 2*total > 5*2^e; a count equal to m then compares
\* greater.
ExceedsSeventyPercent(count, total) ==
    \/ 10 * count > 7 * total
    \/ /\ 10 * count = 7 * total
       /\ total > 0
       /\ 2 * total > 5 * PowerOfTwoBelow(count)

generateBatchRecommendations(a) ==
    LET fires(r) ==
            CASE r = "critical"       -> a.criticalCount > 0
              [] r = "authentication" -> a.errorsByCategory["authentication"] > 0
              [] r = "network"        -> a.errorsByCategory["network"] > 0
              [] r = "retry"          -> ExceedsSeventyPercent(a.retryableCount, a.totalErrors)
              [] r = "browser"        -> a.errorsByCategory["browser"] > 0
              [] r = "configuration"  -> a.errorsByCategory["configuration"] > 0
    IN  SelectSeq(<<"critical", "authentication", "network", "retry", "browser",
                    "configuration">>, fires)

analyzeBatchErrors(es, t) ==
    LET rs == BatchResults(es, t)
        tally ==
            [totalErrors      |-> Len(es),
             errorsByCategory |-> [c \in Categories |->
                                     Cardinality({j \in DOMAIN rs : rs[j].category = c})],
             errorsBySeverity |-> [v \in Severities |->
                                     Cardinality({j \in DOMAIN rs : rs[j].severity = v})],
             retryableCount   |-> Cardinality({j \in DOMAIN rs : rs[j].retryable}),
             criticalCount    |-> Cardinality({j \in DOMAIN rs : rs[j].severity = "critical"})]
    IN  [kind             |-> "batch",
         totalErrors      |-> tally.totalErrors,
         errorsByCategory |-> tally.errorsByCategory,
         errorsBySeverity |-> tally.errorsBySeverity,
         retryableCount   |-> tally.retryableCount,
         criticalCount    |-> tally.criticalCount,
         commonPatterns   |-> findCommonPatterns(ErrorMessages(es), ErrorCodes(es)),
         recommendations  |-> generateBatchRecommendations(tally)]

(***************************************************************************)
(* The caller of ErrorAnalyzer: it holds a list of Error objects and calls *)
(* analyzeError on one of them or analyzeBatchErrors on the list, any      *)
(* number of times in any order.                                           *)
(***************************************************************************)
\* "HTTP 404: Not Found"
NotFound404 == ApiError({"Not Found"}, 404, NoOriginal)
\* "Request timeout after 30000ms", as makeRequest throws it
Timeout408 == ApiError({TimeoutWord}, TIMEOUT_CODE, NoOriginal)
\* a 500 that wraps a transport fault
Upstream500 == ApiError({}, 500, Original({"ETIMEDOUT"}))
\* "Network error: connect ECONNREFUSED", as makeRequest throws it
Fault0 == ApiError({"ECONNREFUSED"}, NETWORK_ERROR_CODE, NoOriginal)
Unauthorized401 == ApiError({}, 401, NoOriginal)
Busy409 == ApiError({Busy}, 409, NoOriginal)
Unlisted429 == ApiError({}, 429, NoOriginal)
Refused == GenericError({"ECONNREFUSED"})
TimedOut == GenericError({"Timeout"})
Other == GenericError({})
BadConfig == ConfigError({"API key is required"})
NoneCreated == BrowserCreationError({}, FALSE)
SomeCreated == BrowserCreationError({}, TRUE)

FreeErrors == {NotFound404, Timeout408, Upstream500, Unauthorized401, Refused,
               TimedOut, BadConfig, NoneCreated}

RECURSIVE ListsUpTo(_, _)
ListsUpTo(S, len) ==
    IF len = 0 THEN {<<>>}
    ELSE LET shorter == ListsUpTo(S, len - 1)
         IN  shorter \cup {Append(l, x) : l \in shorter, x \in S}

Repeat(e, count) == [j \in 1..count |-> e]

\* 10 failures of which 3 carry code 404 and 4 contain "timeout"
TenFailures ==
    <<NotFound404, TimedOut, BadConfig, TimedOut, NotFound404, Unauthorized401,
      TimedOut, Unlisted429, NotFound404, TimedOut>>
\* uncoded failures before and between coded ones
MixedFailures == <<Refused, NotFound404, BadConfig, NotFound404, Busy409, Busy409>>
\* one failure of every kind
EveryKind ==
    <<NotFound404, Timeout408, Upstream500, Fault0, Unauthorized401, Busy409,
      Unlisted429, Refused, TimedOut, Other, BadConfig, NoneCreated, SomeCreated>>
\* 90 failures of which 63 are retryable
NinetyFailures == Repeat(Timeout408, 63) \o Repeat(NotFound404, 27)
\* 10 failures of which 7 are retryable, and of which 8 are
SevenOfTen == Repeat(Timeout408, 7) \o Repeat(NotFound404, 3)
EightOfTen == Repeat(Timeout408, 8) \o Repeat(NotFound404, 2)

ScriptedFailures ==
    {TenFailures, MixedFailures, EveryKind, NinetyFailures, SevenOfTen, EightOfTen}

AnalyzerInit ==
    /\ op = "analyze" /\ n = 0 /\ maxRetries = DEFAULT_MAX_RETRIES
    /\ retryDelay = DEFAULT_RETRY_DELAY
    /\ plan = [k \in 1..0 |-> "any"]
    /\ pc = "idle"
    /\ BlankItems(0)
    /\ BlankBatch
    /\ sig = NoSig /\ err = NoError /\ cls = NoCls
    /\ tables = LoadedTables
    /\ errs \in ListsUpTo(FreeErrors, MaxErrors) \cup ScriptedFailures
    /\ log = <<>>
    /\ BlankProcess

Call(fn, arg, result) == [fn |-> fn, arg |-> arg, result |-> result]

\* ErrorAnalyzer.analyzeError(errs[j])
AnalyzeOne(j) ==
    /\ op = "analyze" /\ Len(log) < MaxCalls
    /\ j \in DOMAIN errs /\ j <= MaxSignals
    /\ log' = Append(log, Call("analyzeError", j, analyzeError(errs[j], tables)))
    /\ tables' = TablesAfter(errs[j], tables)
    /\ UNCHANGED <<inputVars, settled, sleep, processVars, i, pc, itemVars,
                   listVars, out, sig, err, cls, errs>>

\* ErrorAnalyzer.analyzeBatchErrors(errs)
AnalyzeBatch ==
    /\ op = "analyze" /\ Len(log) < MaxCalls
    /\ log' = Append(log, Call("analyzeBatchErrors", 0, analyzeBatchErrors(errs, tables)))
    /\ tables' = TablesAt(errs, Len(errs), tables)
    /\ UNCHANGED <<inputVars, settled, sleep, processVars, i, pc, itemVars,
                   listVars, out, sig, err, cls, errs>>

AnalyzerNext == (\E j \in 1..MaxSignals : AnalyzeOne(j)) \/ AnalyzeBatch

AnalyzerSpec == AnalyzerInit /\ [][AnalyzerNext]_vars

(***************************************************************************)
(* Properties.                                                             *)
(***************************************************************************)
\* number of entries of a sequence of records that describe item k
CountOf(seq, k) == Cardinality({j \in 1..Len(seq) : seq[j] = k})
CountOfDirId(seq, k) == Cardinality({j \in 1..Len(seq) : seq[j].dirId = k})

\* 0-based number of the window of item k for window size b
WindowOf(k, b) == (k - 1) \div b
BatchSize == IF op = "open" THEN OPEN_BATCH_SIZE ELSE CREATE_BATCH_SIZE

\* C1: every batch returned by createBrowsers, the empty one included, has
\* successCount + failureCount = total, and total is the number of input
\* configs.
C1_CreateCountsAddUp ==
    (op = "create" /\ pc = "done") =>
        /\ out.successCount + out.failureCount = out.total
        /\ out.total = n
        /\ Len(out.results) = n

\* a completed createBrowsers batch of two windows with successes and failures
C1_Witness ==
    /\ op = "create" /\ pc = "done" /\ n > CREATE_BATCH_SIZE
    /\ out.successCount > 0 /\ out.failureCount > 0

\* C2: when openBrowsers completes, every input dirId is in exactly one of
\* the two returned lists, whatever the remote call returned for it.
C2_EveryItemInOneList ==
    (op = "open" /\ pc = "done") =>
        \A k \in Items :
            CountOf(out.successes, k) + CountOfDirId(out.failures, k) = 1

\* C3: in openBrowsers and createBrowsers a remote call of an item has been
\* issued only if every item of every earlier window has reached its final
\* outcome.
C3_WindowOrder ==
    op \in {"open", "create"} =>
        \A k \in Items : calls[k] > 0 =>
            \A j \in Items :
                WindowOf(j, BatchSize) < WindowOf(k, BatchSize) => st[j] = "resolved"

\* the second window of openBrowsers is in flight after an item of the first
\* window failed on its last retry
C3_Witness ==
    /\ op = "open" /\ pc = "await" /\ maxRetries > 0
    /\ \E k \in Items : WindowOf(k, OPEN_BATCH_SIZE) = 1 /\ st[k] = "pending"
    /\ \E j \in Items : /\ WindowOf(j, OPEN_BATCH_SIZE) = 0
                        /\ calls[j] = 1 + maxRetries /\ ret[j].kind = "error"

\* item k of openBrowsers has resolved as a failure / as a retryable failure
FailedItem(k) == st[k] = "resolved" /\ ret[k].kind = "error"
ExhaustedItem(k) == FailedItem(k) /\ ret[k].retryable

\* the batch of 7 in which items 2 and 6 always time out (code 408, category
\* network) and the others succeed on the first attempt, called without options
ExamplePlan == [k \in 1..7 |-> IF k \in {2, 6} THEN "timeout" ELSE "ok"]
ExampleDone ==
    /\ op = "open" /\ pc = "done" /\ n = 7
    /\ maxRetries = DEFAULT_MAX_RETRIES /\ plan = ExamplePlan

C5_NonRetryableStops ==
    /\ [](op = "open" =>
            \A k \in Items :
                (lastError[k].isRoxy /\ ~lastError[k].retryable) =>
                    FailedItem(k) /\ timer[k] = 0)
    /\ [][op = "open" =>
            \A k \in Items :
                (lastError[k].isRoxy /\ ~lastError[k].retryable) =>
                    /\ calls'[k] = calls[k]
                    /\ st'[k] = st[k]
                    /\ timer'[k] = timer[k]]_vars

\* a batch with retry budget has completed, and an item whose first failure
\* was non-retryable was attempted once
C5_Witness ==
    /\ op = "open" /\ pc = "done" /\ maxRetries > 0
    /\ \E k \in Items : FailedItem(k) /\ ~ret[k].retryable /\ calls[k] = 1

\* C6: in openBrowsers an item whose attempt succeeded is resolved with that
\* result, no later attempt is made for it, and its earlier failed attempts
\* are not in the returned failures.
C6_SuccessIsFinal ==
    /\ [][op = "open" =>
            \A k \in Items :
                ret[k].kind = "result" =>
                    /\ st[k] = "resolved"
                    /\ calls'[k] = calls[k]
                    /\ st'[k] = st[k]
                    /\ ret'[k] = ret[k]]_vars
    /\ []((op = "open" /\ pc = "done") =>
            \A k \in Items :
                ret[k].kind = "result" => CountOfDirId(out.failures, k) = 0)

\* a completed batch with an item that succeeded after a failed attempt
C6_Witness ==
    /\ op = "open" /\ pc = "done"
    /\ \E k \in Items : /\ ret[k].kind = "result" /\ ret[k].hasData
                        /\ calls[k] > 1 /\ lastError[k] # NoError
                        /\ CountOf(out.successes, k) = 1

\* item k failed in a returned batch / is recorded as a failure in it
ItemFailed(k) ==
    IF op = "open" THEN ret[k].kind = "error" ELSE ~ret[k].success
RecordedFailed(k) ==
    IF op = "open" THEN CountOfDirId(out.failures, k) = 1
    ELSE /\ k <= Len(out.results)
         /\ out.results[k].item = k /\ ~out.results[k].success

\* C7: openBrowsers, createBrowsers and closeBrowsers never reject because a
\* per-item remote call failed: no callback rejects, the batch call does not
\* reject, and the returned result records each failed item as a failure.
C7_NeverRejects ==
    /\ pc # "rejected"
    /\ \A k \in Items : st[k] # "rejected"
    /\ pc = "done" => \A k \in Items : ItemFailed(k) => RecordedFailed(k)

\* a batch of two windows has returned although every item failed
C7_Witness ==
    /\ op = "create" /\ pc = "done" /\ n > CREATE_BATCH_SIZE
    /\ \A k \in Items : ItemFailed(k) /\ RecordedFailed(k)

(***************************************************************************)
(* Progress: every remote call settles, every timer fires and every        *)
(* continuation runs, so a step that is possible is eventually taken.      *)
(***************************************************************************)
FairSpec == Spec /\ WF_vars(Next)

\* C8: a failure never aborts the batch: openBrowsers and createBrowsers
\* eventually attempt every input item and process every window.
C8_EveryItemAttempted ==
    op \in {"open", "create"} =>
        <>(pc = "done" /\ \A k \in Items : calls[k] >= 1 /\ st[k] = "resolved")

\* openBrowsers has returned after every item of the first window failed and
\* the second window was processed
C8_Witness ==
    /\ op = "open" /\ pc = "done" /\ n > OPEN_BATCH_SIZE
    /\ \A k \in Items : WindowOf(k, OPEN_BATCH_SIZE) = 0 => FailedItem(k)
    /\ \A k \in Items : calls[k] >= 1

\* the failure under study carries result code 409, from the response body
\* or from the HTTP status
Is409 == pc \in {"thrown", "analyzed"} /\ err.code = 409

C10_NoFailureIsSuccess ==
    pc \in {"thrown", "analyzed"} =>
        /\ ~(err.code = 0 /\ err.hasInfo /\ err.name = "SUCCESS")
        /\ SuccessCn \notin err.message

\* C11: a transport fault (no numeric response code) is classified
\* retryable, so an item of openBrowsers whose attempt raised one is retried
\* while retry budget remains: it resolves as a failure on a transport fault
\* only after 1 + maxRetries attempts, and that failure is marked retryable.
C11_TransportFaultRetried ==
    op = "open" =>
        \A k \in Items :
            (lastError[k].isRoxy /\ lastError[k].code = NETWORK_ERROR_CODE) =>
                /\ isRetryable(lastError[k])
                /\ FailedItem(k) =>
                       ret[k].retryable /\ calls[k] = 1 + maxRetries

\* the remote calls of the batch that are in flight
InFlight == {k \in Items : st[k] = "pending"}

\* C16: at most 5 remote calls of one openBrowsers call and at most 3 of one
\* createBrowsers call are in flight, and the windows are consecutive slices
\* of the input of that size: the loop variable is a multiple of the size,
\* the calls in flight belong to items i+1 .. i+size, and no item after that
\* slice has been called.
C16_WindowBound ==
    op \in {"open", "create"} =>
        /\ Cardinality(InFlight) <= BatchSize
        /\ i % BatchSize = 0
        /\ \A k \in InFlight : i < k /\ k <= i + BatchSize
        /\ \A k \in Items : calls[k] > 0 => k <= i + BatchSize
        /\ pc \in {"await", "delay"} =>
               \A k \in Items : (i < k /\ k <= i + BatchSize) => calls[k] > 0

\* a full window of an openBrowsers batch is in flight while an item of the
\* next window waits
C16_Witness ==
    /\ op = "open" /\ n > OPEN_BATCH_SIZE
    /\ Cardinality(InFlight) = OPEN_BATCH_SIZE
    /\ \E k \in Items : calls[k] = 0

C12_UnknownCodeTotal ==
    /\ (sig.kind \in {"json", "http"} /\ sig.code \notin TableCodes /\ pc # "idle") =>
           pc \in {"thrown", "analyzed"} /\ err.code = sig.code
    /\ (pc \in {"thrown", "analyzed"} /\ err.code \notin TableCodes) =>
           /\ ~err.hasInfo
           /\ err.category = "unknown" /\ err.severity = "medium"
           /\ ~isRetryable(err)
           /\ pc = "thrown" => ENABLED Analyze
           /\ pc = "analyzed" =>
                  /\ cls.kind = "analysis"
                  /\ cls.category = "unknown" /\ cls.severity = "medium"
                  /\ ~cls.retryable /\ ~cls.hasStrategy

\* a response with HTTP status 429, which the table does not list, has been
\* analysed
C12_Witness ==
    /\ pc = "analyzed" /\ sig.kind = "http" /\ sig.code = 429
    /\ cls.category = "unknown"

(***************************************************************************)
(* Properties of ErrorAnalyzer.                                            *)
(***************************************************************************)
\* the calls of analyzeError / of analyzeBatchErrors made so far
SingleCalls == {a \in DOMAIN log : log[a].fn = "analyzeError"}
BatchCalls == {a \in DOMAIN log : log[a].fn = "analyzeBatchErrors"}

\* C13: classification is deterministic and stateless: every call of
\* analyzeError on a signal, whatever was classified before it, returns the
\* category, severity, retryable flag, retry strategy and troubleshooting
\* list that a call in the freshly loaded program returns, so two calls on
\* equal signals return equal classifications.
C13_Deterministic ==
    /\ \A a \in SingleCalls :
           log[a].result = analyzeError(errs[log[a].arg], LoadedTables)
    /\ \A a, b \in SingleCalls :
           errs[log[a].arg] = errs[log[b].arg] => log[a].result = log[b].result

\* a coded failure that wraps a transport fault was classified, then the
\* whole list, then the same failure again
C13_Witness ==
    /\ op = "analyze" /\ Len(errs) >= 2 /\ errs[1] = Upstream500
    /\ Len(log) = 3 /\ 1 \in SingleCalls /\ 2 \in BatchCalls /\ 3 \in SingleCalls
    /\ Len(log[3].result.troubleshooting) > Len(TableSteps[500])

\* the strategy the specification assigns to a category
CategoryStrategy(c) ==
    CASE c = "network" -> Strategy(2000, 3)
      [] c = "server"  -> Strategy(5000, 2)
      [] c = "browser" -> Strategy(1000, 1)
      [] OTHER         -> Strategy(1000, 1)

\* C14: the retry strategy of every classification is a function of its
\* category only (network 2000 ms / 3, server 5000 ms / 2, browser 1000 ms /
\* 1, other 1000 ms / 1) and a non-retryable classification carries none, on
\* every classification path.
C14_StrategyByCategory ==
    \A a \in SingleCalls :
        LET r == log[a].result
        IN  IF r.retryable
            THEN r.hasStrategy /\ r.retryStrategy = CategoryStrategy(r.category)
            ELSE ~r.hasStrategy

\* the failures of errs that carry code c / whose message contains kw
CodedWith(c) == {j \in DOMAIN errs : errs[j].class = "RoxyApiError" /\ errs[j].code = c}
Containing(kw) == {j \in DOMAIN errs : MessageIncludes(errs[j].message, kw)}
KeywordSet == {commonKeywords[x] : x \in DOMAIN commonKeywords}
CodeSet == {errs[j].code : j \in DOMAIN errs}

\* C17: commonPatterns holds exactly one pattern per code carried by at
\* least 2 coded failures and one per keyword probe contained in at least 2
\* messages, each with that count and at most 3 examples, sorted by
\* non-increasing count; the 10 failures with 3 of code 404 and 4 containing
\* "timeout" yield both entries, the count-4 entry first.
C17_CommonPatterns ==
    \A a \in BatchCalls :
        LET ps == log[a].result.commonPatterns
            forCode(c) == {x \in DOMAIN ps : ps[x].kind = "code" /\ ps[x].code = c}
            forWord(kw) == {x \in DOMAIN ps : ps[x].kind = "keyword" /\ ps[x].keyword = kw}
        IN  /\ \A x \in DOMAIN ps :
                  /\ ps[x].kind \in {"code", "keyword"}
                  /\ ps[x].kind = "code" =>
                         ps[x].code \in CodeSet /\ ps[x].count = Cardinality(CodedWith(ps[x].code))
                  /\ ps[x].kind = "keyword" =>
                         ps[x].keyword \in KeywordSet /\ ps[x].count = Cardinality(Containing(ps[x].keyword))
                  /\ ps[x].count >= 2
                  /\ Len(ps[x].affectedItems) <= 3
            /\ \A c \in CodeSet :
                  Cardinality(forCode(c)) = IF Cardinality(CodedWith(c)) >= 2 THEN 1 ELSE 0
            /\ \A kw \in KeywordSet :
                  Cardinality(forWord(kw)) = IF Cardinality(Containing(kw)) >= 2 THEN 1 ELSE 0
            /\ \A x, y \in DOMAIN ps : x < y => ps[x].count >= ps[y].count
            /\ errs = TenFailures =>
                  \E x, y \in DOMAIN ps :
                      /\ x < y
                      /\ ps[x].kind = "keyword" /\ ps[x].keyword = "timeout" /\ ps[x].count = 4
                      /\ ps[y].kind = "code" /\ ps[y].code = 404 /\ ps[y].count = 3

\* the 10 failures of the example have been analysed
C17_Witness ==
    /\ op = "analyze" /\ errs = TenFailures /\ BatchCalls # {}
    /\ \E a \in BatchCalls : Len(log[a].result.commonPatterns) >= 2

\* what the list of failures is, classified afresh
Fresh == [j \in DOMAIN errs |-> analyzeError(errs[j], LoadedTables)]
FreshWith(c) == {j \in DOMAIN errs : Fresh[j].category = c}
FreshRetryable == {j \in DOMAIN errs : Fresh[j].retryable}

\* C18: the recommendations are exactly those whose rule fires: urgent
\* attention iff a failure is critical, credentials iff one is of category
\* authentication, connectivity iff one is of category network, automatic
\* retry iff the retryable failures are strictly more than 70% of all,
\* browser / configuration iff one is of that category; none for no failure.
C18_RecommendationRules ==
    \A a \in BatchCalls :
        LET recs == {log[a].result.recommendations[x] :
                        x \in DOMAIN log[a].result.recommendations}
        IN  /\ "critical" \in recs <=> \E j \in DOMAIN errs : Fresh[j].severity = "critical"
            /\ "authentication" \in recs <=> FreshWith("authentication") # {}
            /\ "network" \in recs <=> FreshWith("network") # {}
            /\ "retry" \in recs <=> 10 * Cardinality(FreshRetryable) > 7 * Len(errs)
            /\ "browser" \in recs <=> FreshWith("browser") # {}
            /\ "configuration" \in recs <=> FreshWith("configuration") # {}
            /\ errs = <<>> => recs = {}

\* C19: analyzeBatchErrors is read-only and repeatable: no call changes the
\* list of failures, a failure in it or the troubleshooting list a failure
\* refers to, and every call on the list returns the same analysis.
C19_ReadOnly ==
    /\ [][errs' = errs /\ tables' = tables]_vars
    /\ [](\A a, b \in BatchCalls : log[a].result = log[b].result)

\* a list holding a coded failure that wraps a transport fault was analysed
\* three times
C19_Witness ==
    /\ op = "analyze" /\ Len(errs) >= 2
    /\ \E j \in DOMAIN errs : errs[j] = Upstream500
    /\ BatchCalls = {1, 2, 3}

\* C20: the example messages of a code-level pattern are messages of
\* failures that carry that code, whatever the order of coded and uncoded
\* failures in the batch.
C20_ExamplesCarryCode ==
    \A a \in BatchCalls :
        LET ps == log[a].result.commonPatterns
        IN  \A x \in DOMAIN ps :
                ps[x].kind = "code" =>
                    \A y \in DOMAIN ps[x].affectedItems :
                        \E j \in CodedWith(ps[x].code) :
                            errs[j].message = ps[x].affectedItems[y]

(***************************************************************************)
(* Properties of the retry loop of openBrowsers, item by item.             *)
(***************************************************************************)
\* the variables of the callback of item k
Local(k) ==
    [st |-> st[k], attempt |-> attempt[k], calls |-> calls[k],
     lastError |-> lastError[k], lastErrorCode |-> lastErrorCode[k],
     timer |-> timer[k], ret |-> ret[k]]

\* what the history of one item prescribes when its call is answered by w:
\* a result, a wait of calls * retryDelay while a retryable failure leaves
\* budget, a failure otherwise
ItemAfterAnswer(l, w) ==
    LET r == makeRequest(w)
        e == r.error
        failed == [l EXCEPT !.lastError = e, !.lastErrorCode = e.code]
    IN  IF r.ok
        THEN [l EXCEPT !.st = "resolved",
                       !.ret = [kind |-> "result", hasData |-> r.hasData]]
        ELSE IF isRetryable(e) /\ l.calls <= maxRetries
        THEN [failed EXCEPT !.st = "backoff", !.timer = retryDelay * l.calls]
        ELSE [failed EXCEPT !.st = "resolved",
                            !.ret = [kind |-> "error", error |-> e.message,
                                     errorCode |-> e.code,
                                     retryable |-> isRetryable(e)]]

\* ... and when its backoff timer fires
ItemAfterTimer(l) ==
    [l EXCEPT !.st = "pending", !.attempt = l.attempt + 1,
              !.calls = l.calls + 1, !.timer = 0]

\* C22: retry decisions are per item and uncoordinated: a step of one item
\* leaves its siblings as they are, the item's next attempt count, backoff
\* wait and outcome are determined by its own history and the answer to its
\* own call, whatever the siblings' results, retries or backoff states, and
\* a pending backoff timer can fire whatever the siblings are doing.
C22_PerItemRetry ==
    /\ [][op = "open" =>
            LET changed == {k \in Items : Local(k)' # Local(k)}
            IN  \/ changed = {}
                \/ /\ pc = "await" /\ pc' = "await" /\ i' = i
                   /\ Cardinality(changed) = 1
                   /\ \A k \in changed :
                          \/ /\ st[k] = "pending"
                             /\ \E w \in Answers(k) :
                                    Local(k)' = ItemAfterAnswer(Local(k), w)
                          \/ /\ st[k] = "backoff"
                             /\ Local(k)' = ItemAfterTimer(Local(k))
                \/ /\ pc = "call" \/ i' # i
                   /\ \A k \in changed :
                          /\ WindowOf(k, OPEN_BATCH_SIZE) * OPEN_BATCH_SIZE = i'
                          /\ Local(k)' = [Local(k) EXCEPT !.st = "pending", !.calls = 1]
                   /\ \A k \in Items : st[k] \in {"idle", "resolved"}]_vars
    /\ []((op = "open" /\ pc = "await") =>
            \A k \in Items :
                /\ st[k] = "backoff" => ENABLED OpenRetry(k)
                /\ st[k] = "pending" => \A w \in Answers(k) : ENABLED OpenRespond(k, w))

\* two siblings of one window wait in backoff at the same time, one after
\* its first and one after its second failed attempt
C22_Witness ==
    /\ op = "open" /\ pc = "await"
    /\ \E j, k \in Items :
           /\ j # k /\ st[j] = "backoff" /\ st[k] = "backoff"
           /\ calls[j] = 1 /\ calls[k] = 2

\* C25: in openBrowsers with retry budget maxRetries >= 0 every item is
\* attempted at least once and at most 1 + maxRetries times, and no backoff
\* wait follows an item's final attempt: an item that waits has budget left,
\* and the item whose last permitted attempt fails resolves in that step.
C25_AttemptBounds ==
    /\ [](op = "open" =>
            \A k \in Items :
                /\ calls[k] <= 1 + maxRetries
                /\ st[k] # "idle" => calls[k] >= 1
                /\ pc = "done" => calls[k] >= 1 /\ st[k] = "resolved"
                /\ st[k] = "backoff" => calls[k] <= maxRetries
                /\ st[k] # "backoff" => timer[k] = 0)
    /\ [][op = "open" =>
            \A k \in Items :
                (st[k] = "pending" /\ calls[k] = 1 + maxRetries /\ st'[k] # st[k]) =>
                    st'[k] = "resolved" /\ timer'[k] = 0 /\ calls'[k] = calls[k]]_vars

\* a batch has returned in which one item used its whole budget of three
\* attempts and another was attempted once
C25_Witness ==
    /\ op = "open" /\ pc = "done" /\ maxRetries = 2 /\ plan = [k \in 1..n |-> "any"]
    /\ \E j, k \in Items :
           /\ FailedItem(j) /\ calls[j] = 3
           /\ calls[k] = 1

\* C26: in the failures of openBrowsers the retryable flag agrees with the
\* retry history: a failure with retryable = true was attempted exactly
\* 1 + maxRetries times, and a failure with retryable = false ended on an
\* attempt whose error was non-retryable, with errorCode the code of that
\* last error.
C26_RetryableFlag ==
    op = "open" =>
        /\ \A x \in DOMAIN failures :
               LET f == failures[x]
                   k == f.dirId
               IN  /\ f.retryable => calls[k] = 1 + maxRetries
                   /\ ~f.retryable =>
                          /\ lastError[k].isRoxy /\ ~isRetryable(lastError[k])
                          /\ f.errorCode = lastError[k].code
        /\ pc = "done" => out.failures = failures

\* a returned batch reports a failure that exhausted its budget on timeouts
\* and a failure that ended on a 404 after one retry
C26_Witness ==
    /\ op = "open" /\ pc = "done" /\ maxRetries = 2
    /\ \E x, y \in DOMAIN out.failures :
           /\ out.failures[x].retryable
           /\ out.failures[x].errorCode = TIMEOUT_CODE
           /\ calls[out.failures[x].dirId] = 3
           /\ ~out.failures[y].retryable
           /\ out.failures[y].errorCode = 404
           /\ calls[out.failures[y].dirId] = 2

(***************************************************************************)
(* Properties of createBrowsers and closeBrowsers.                         *)
(***************************************************************************)
\* C23: createBrowsers pauses between windows: when a window has resolved
\* and an item remains it suspends for 1000 ms before issuing any call of
\* the next window; it does not suspend after the last window, nor for a
\* batch that fits in one window.
C23_InterWindowDelay ==
    /\ [](op = "create" =>
            /\ pc = "delay" <=> sleep = 1000
            /\ sleep \in {0, 1000}
            /\ pc = "delay" =>
                   /\ i + CREATE_BATCH_SIZE < n
                   /\ Len(results) = i + CREATE_BATCH_SIZE
                   /\ \A k \in Items :
                          IF k <= i + CREATE_BATCH_SIZE
                          THEN st[k] = "resolved" ELSE calls[k] = 0
            /\ n <= CREATE_BATCH_SIZE => pc # "delay")
    /\ [][op = "create" =>
            /\ (pc = "await" /\ pc' # "await") =>
                   IF i + CREATE_BATCH_SIZE < n
                   THEN pc' = "delay" /\ sleep' = 1000
                   ELSE pc' = "done" /\ sleep' = 0
            /\ \A k \in Items :
                   (k > CREATE_BATCH_SIZE /\ calls[k] = 0 /\ calls'[k] = 1) =>
                       pc = "delay" /\ sleep = 1000 /\ sleep' = 0]_vars

\* the first window of a batch of four has resolved and createBrowsers
\* sleeps before the fourth item is called
C23_Witness ==
    /\ op = "create" /\ pc = "delay" /\ n = CREATE_BATCH_SIZE + 1
    /\ sleep = CREATE_BATCH_DELAY /\ calls[n] = 0

\* C27: the results of createBrowsers and closeBrowsers are in input order
\* for every order in which the remote calls complete: the k-th result
\* describes the k-th input item, within a window and across windows.
C27_InputOrder ==
    op \in {"create", "close"} =>
        /\ \A j \in DOMAIN results :
               /\ results[j].item = j
               /\ results[j].success = ret[j].success
               /\ results[j].error = ret[j].error
        /\ pc = "done" => out.results = results /\ Len(out.results) = n

\* createBrowsers has returned a batch of two windows in which the calls of
\* the first window completed in the order 3, 1, 2 and the second item alone
\* failed
C27_Witness ==
    /\ op = "create" /\ pc = "done" /\ n = CREATE_BATCH_SIZE + 1
    /\ settled = <<3, 1, 2, 4>>
    /\ ~ret[2].success /\ ret[1].success /\ ret[3].success /\ ret[4].success

(***************************************************************************)
(* Properties of the analysis of a 409 and of the batch tallies.           *)
(***************************************************************************)
\* the server message of the failure under study reports exhausted quota
QuotaExhausted == QuotaCn \in sig.msg \/ QuotaEn \in sig.msg

\* C28: for a code-409 failure whose server message does not indicate
\* exhausted quota the suggested actions are the conflict actions and not
\* the purchase-quota actions; the purchase-quota actions are produced only
\* for quota-exhausted 409 failures.
C28_ConflictActions ==
    (Is409 /\ pc = "analyzed") =>
        /\ ~QuotaExhausted => cls.suggestedActions = "close conflicting profiles"
        /\ cls.suggestedActions = "purchase quota" => QuotaExhausted

\* the sum of the counts f holds for the keys in S
RECURSIVE SumOver(_, _)
SumOver(f, S) ==
    IF S = {} THEN 0
    ELSE LET x == CHOOSE y \in S : TRUE
         IN  f[x] + SumOver(f, S \ {x})

\* C29: no classification path assigns severity critical: no table entry
\* and no analyzer branch produces it, so every batch analysis has
\* criticalCount = 0 and never contains the urgent-attention recommendation.
C29_NeverCritical ==
    /\ \A c \in TableCodes : ROXY_ERROR_MAP[c].severity \in Severities \ {"critical"}
    /\ \A a \in SingleCalls : log[a].result.severity \in Severities \ {"critical"}
    /\ \A a \in BatchCalls :
           /\ log[a].result.criticalCount = 0
           /\ log[a].result.errorsBySeverity["critical"] = 0
           /\ \A x \in DOMAIN log[a].result.recommendations :
                  log[a].result.recommendations[x] # "critical"

\* a list with one failure of every kind, high-severity ones from the table,
\* from a ConfigError, a BrowserCreationError and a network pattern among
\* them, has been analysed as a batch
C29_Witness ==
    /\ op = "analyze" /\ errs = EveryKind /\ BatchCalls # {}
    /\ \E a \in BatchCalls : log[a].result.errorsBySeverity["high"] >= 4

\* C30: the batch analysis is internally consistent: totalErrors is the
\* number of failures, the counts of errorsByCategory sum to totalErrors, so
\* do the counts of errorsBySeverity, and criticalCount and retryableCount
\* lie between 0 and totalErrors.
C30_TalliesConsistent ==
    \A a \in BatchCalls :
        LET r == log[a].result
        IN  /\ r.totalErrors = Len(errs)
            /\ SumOver(r.errorsByCategory, Categories) = r.totalErrors
            /\ SumOver(r.errorsBySeverity, Severities) = r.totalErrors
            /\ 0 <= r.criticalCount /\ r.criticalCount <= r.totalErrors
            /\ 0 <= r.retryableCount /\ r.retryableCount <= r.totalErrors

\* a list of coded and uncoded failures of several categories and
\* severities, some retryable and some not, has been analysed as a batch
C30_Witness ==
    /\ op = "analyze" /\ errs = MixedFailures
    /\ \E a \in BatchCalls :
           LET r == log[a].result
           IN  /\ r.totalErrors = 6
               /\ 0 < r.retryableCount /\ r.retryableCount < r.totalErrors
               /\ Cardinality({c \in Categories : r.errorsByCategory[c] > 0}) >= 3
               /\ Cardinality({v \in Severities : r.errorsBySeverity[v] > 0}) >= 2

(***************************************************************************)
(* One call of makeRequest in time.  The call arms a timer of              *)
(* config.timeout that aborts the fetch, awaits the response headers       *)
(* (fetch), clears the timer, and then awaits the body (response.json() or *)
(* response.text()).  The remote service answers with wire outcome sig,    *)
(* unless it stalls before the headers or before the end of the body.      *)
(* Time is counted in ticks; an armed timer fires when its delay is over.  *)
(***************************************************************************)
\* the outcomes in which fetch resolves with a response
HasHeaders(w) == w.kind \in {"json", "http", "badjson"}

RequestInit ==
    /\ op = "request" /\ n = 0 /\ maxRetries = DEFAULT_MAX_RETRIES
    /\ retryDelay = DEFAULT_RETRY_DELAY
    /\ plan = [k \in 1..0 |-> "any"]
    /\ BlankItems(0)
    /\ BlankBatch
    /\ sig \in Wires \ {WAbort}
    /\ err = NoError
    /\ cls = NoCls
    /\ BlankAnalyzer
    /\ timeout \in 1..MaxTimeout
    /\ stall \in {"never", "headers"} \cup (IF HasHeaders(sig) THEN {"body"} ELSE {})
    /\ now = 0
    /\ timeoutId = TRUE
    /\ pc = "fetch"
    /\ diagnostics = NoDiagnostics /\ exitCode = NoCode /\ served = 0

Pending == pc \in {"fetch", "body"}

\* fetch resolves with the response: the timer is cleared and the body is
\* awaited
HeadersArrive ==
    /\ op = "request" /\ pc = "fetch"
    /\ stall # "headers" /\ HasHeaders(sig)
    /\ timeoutId' = FALSE
    /\ pc' = "body"
    /\ UNCHANGED <<batchVars, classVars, timeout, stall, now, serverVars>>

\* fetch rejects with a transport fault: the catch block clears the timer
\* and throws the wrapped error
FetchRejects ==
    /\ op = "request" /\ pc = "fetch"
    /\ stall # "headers" /\ ~HasHeaders(sig)
    /\ timeoutId' = FALSE
    /\ err' = makeRequest(sig).error
    /\ pc' = "thrown"
    /\ UNCHANGED <<batchVars, sig, cls, analyzerVars, timeout, stall, now, serverVars>>

\* the body has been read: makeRequest returns data or throws
BodyArrives ==
    /\ op = "request" /\ pc = "body"
    /\ stall # "body"
    /\ LET r == makeRequest(sig)
       IN  IF r.ok
           THEN pc' = "returned" /\ err' = err
           ELSE pc' = "thrown" /\ err' = r.error
    /\ timeoutId' = FALSE
    /\ UNCHANGED <<batchVars, sig, cls, analyzerVars, timeout, stall, now, serverVars>>

\* the timer fires: controller.abort() rejects the pending await with an
\* AbortError, which the catch block turns into the timeout error
TimerFires ==
    /\ op = "request" /\ Pending
    /\ timeoutId /\ now = timeout
    /\ timeoutId' = FALSE
    /\ err' = makeRequest(WAbort).error
    /\ pc' = "thrown"
    /\ UNCHANGED <<batchVars, sig, cls, analyzerVars, timeout, stall, now, serverVars>>

\* a tick passes while the call is pending (not past the delay of an armed
\* timer)
Tick ==
    /\ op = "request" /\ Pending
    /\ now < MaxTime
    /\ ~(timeoutId /\ now = timeout)
    /\ now' = now + 1
    /\ UNCHANGED <<batchVars, pc, classVars, timeout, stall, timeoutId, serverVars>>

RequestNext == HeadersArrive \/ FetchRejects \/ BodyArrives \/ TimerFires \/ Tick

RequestSpec == RequestInit /\ [][RequestNext]_vars

\* C21: every remote call settles: a call whose response has not been fully
\* received when the configured timeout elapses is aborted and fails with
\* code 408 (network, retryable), so no call is pending once its timeout
\* has elapsed, whether the stall is before the headers or in the body.
C21_EveryCallSettles ==
    op = "request" =>
        /\ Pending => now <= timeout
        /\ (Pending /\ now = timeout) => ENABLED TimerFires
        /\ (pc = "thrown" /\ now = timeout /\ stall # "never") =>
               /\ err.code = TIMEOUT_CODE
               /\ err.category = "network" /\ isRetryable(err)

(***************************************************************************)
(* Startup of the server process: run awaits performDiagnostics, which     *)
(* awaits the request to /health and then getWorkspaces(1, 1); run exits   *)
(* or connects the transport, after which tool calls are handled.          *)
(***************************************************************************)
StartInit ==
    /\ op = "start" /\ n = 0 /\ maxRetries = DEFAULT_MAX_RETRIES
    /\ retryDelay = DEFAULT_RETRY_DELAY
    /\ plan = [k \in 1..0 |-> "any"]
    /\ BlankItems(0)
    /\ BlankBatch
    /\ BlankClass
    /\ BlankProcess
    /\ pc = "health"

\* Test 1: basic connectivity
HealthResult(d, r) ==
    IF r.ok THEN [d EXCEPT !.connected = TRUE]
    ELSE [d EXCEPT !.connected = FALSE,
                   !.errors = Append(d.errors, "Connection failed")]

\* Test 2: authentication
WorkspacesResult(d, r) ==
    IF r.ok THEN [d EXCEPT !.authentication = TRUE, !.workspaceAccess = TRUE]
    ELSE IF ~r.error.isRoxy
    THEN [d EXCEPT !.errors = Append(d.errors, "Unexpected error")]
    ELSE IF r.error.code = 401
    THEN [d EXCEPT !.authentication = FALSE,
                   !.errors = Append(d.errors, "Authentication failed")]
    ELSE IF r.error.code = 403
    THEN [d EXCEPT !.authentication = TRUE, !.workspaceAccess = FALSE,
                   !.errors = Append(d.errors, "Access denied")]
    ELSE [d EXCEPT !.authentication = TRUE,
                   !.errors = Append(d.errors, "API error")]

RunAfterDiagnostics_connectivityOnly(d) ==
    IF ~d.connected THEN [pc |-> "exited", exitCode |-> 1]
    ELSE [pc |-> "connect", exitCode |-> NoCode]

\* run, from the return of performDiagnostics to process.exit or to the
\* await of server.connect
RunAfterDiagnostics(d) ==
    IF ~d.connected THEN [pc |-> "exited", exitCode |-> 1]
    ELSE IF ~d.authentication THEN [pc |-> "exited", exitCode |-> 1]
    ELSE [pc |-> "connect", exitCode |-> NoCode]

\* the request to /health settles with wire outcome w
HealthRespond(w) ==
    /\ op = "start" /\ pc = "health"
    /\ LET d == HealthResult(diagnostics, makeRequest(w))
       IN  /\ diagnostics' = d
           /\ IF d.connected
              THEN pc' = "workspaces" /\ exitCode' = exitCode
              ELSE /\ pc' = RunAfterDiagnostics(d).pc
                   /\ exitCode' = RunAfterDiagnostics(d).exitCode
    /\ sig' = w
    /\ UNCHANGED <<batchVars, err, cls, analyzerVars, requestVars, served>>

\* getWorkspaces(1, 1) settles with wire outcome w; performDiagnostics
\* returns and run continues
WorkspacesRespond(w) ==
    /\ op = "start" /\ pc = "workspaces"
    /\ LET d == WorkspacesResult(diagnostics, makeRequest(w))
       IN  /\ diagnostics' = d
           /\ pc' = RunAfterDiagnostics(d).pc
           /\ exitCode' = RunAfterDiagnostics(d).exitCode
    /\ sig' = w
    /\ UNCHANGED <<batchVars, err, cls, analyzerVars, requestVars, served>>

\* server.connect(transport) has resolved: run returns
Connected ==
    /\ op = "start" /\ pc = "connect"
    /\ pc' = "running"
    /\ UNCHANGED <<batchVars, classVars, requestVars, diagnostics, exitCode, served>>

\* the connected server handles a tool call
ToolCall ==
    /\ op = "start" /\ pc \in {"connect", "running"}
    /\ served < MaxServed
    /\ served' = served + 1
    /\ UNCHANGED <<batchVars, pc, classVars, requestVars, diagnostics, exitCode>>

StartNext ==
    \/ \E w \in Wires : HealthRespond(w)
    \/ \E w \in Wires : WorkspacesRespond(w)
    \/ Connected
    \/ ToolCall

StartSpec == StartInit /\ [][StartNext]_vars

\* the transport is connected / the diagnostics have returned
Serving == pc \in {"connect", "running"}
Diagnosed == pc \in {"connect", "running", "exited"}

\* C24: the server connects its transport and handles tool calls only
\* after the startup diagnostics reported connectivity and authentication as
\* passed; if either is reported failed the process exits with status 1 in
\* the same run and never handles a request.
C24_ServesOnlyAfterDiagnostics ==
    /\ [](op = "start" =>
            /\ (Serving \/ served > 0) =>
                   /\ diagnostics.connected /\ diagnostics.authentication
                   /\ exitCode = NoCode
            /\ (Diagnosed /\ ~(diagnostics.connected /\ diagnostics.authentication)) =>
                   pc = "exited"
            /\ pc = "exited" <=> exitCode # NoCode
            /\ pc = "exited" => exitCode > 0 /\ served = 0)
    /\ [][op = "start" => pc # "exited"]_vars

\* the server has handled a tool call after diagnostics in which
\* getWorkspaces was answered with 403: authentication is reported passed,
\* workspace access is not
C24_Witness ==
    /\ op = "start" /\ pc = "running" /\ served > 0
    /\ diagnostics.connected /\ diagnostics.authentication
    /\ ~diagnostics.workspaceAccess

====
